---------------------------- MODULE Spec2Model ----------------------------
(***************************************************************************)
(* Model of create_true_solar_suitability.py: the batch pipeline that      *)
(* merges the sheets of the solar-suitability workbook into the boundary   *)
(* shapefile, and of the level table of legend_component.py.               *)
(*                                                                         *)
(* Text is modelled by TLA+ strings, which TLC treats as sequences of      *)
(* characters (Len, SubSeq, \o).  A cell of a table is a record with a     *)
(* kind ("str", "nan", "bool", "num"), so that pandas' missing value NaN   *)
(* is distinct from every string.  A table (DataFrame) is a record         *)
(* [cols, dtypes, rows]: its column labels in order (pandas allows equal   *)
(* labels), the dtype of each column ("object" or "float64" or "bool") and *)
(* its rows, each a sequence of cells in column order.                     *)
(***************************************************************************)
EXTENDS Integers, Sequences, FiniteSets, TLC

VARIABLES
    pc,                 \* position of the run in the script
    shp_exists,         \* os.path.exists("Solar_Suitability_layer.shp")
    shp_file,           \* the content of Solar_Suitability_layer.shp
    report,             \* the value lines of the summary report
    gdf,                \* the boundary GeoDataFrame
    name_columns,       \* NAME columns kept from the boundary file
    workbook,           \* the sheets read at step 2
    acronym_mapping,    \* dict label -> GIS short name
    district_rec_processed,
    master_data,
    merged_gdf,
    successful_merges,
    essential_cols,
    district_rec_cols,
    final_gdf,
    out_file,           \* the dataset written to true_solar_suitability.shp
    out_parts,          \* the files of the output set the run has made
    log,                \* diagnostic messages printed so far
    result,             \* return value of the function
    kname,              \* create_match_key: the name it is applied to
    kkey                \* create_match_key: the keys computed so far

vars == <<pc, shp_exists, shp_file, report,
                   gdf, name_columns, workbook, acronym_mapping,
          district_rec_processed, master_data, merged_gdf, successful_merges,
          essential_cols, district_rec_cols, final_gdf, out_file, out_parts,
          log, result,
          kname, kkey>>

pipeline_vars == <<shp_exists, shp_file, report,
                   gdf, name_columns, workbook, acronym_mapping,
          district_rec_processed, master_data, merged_gdf, successful_merges,
          essential_cols, district_rec_cols, final_gdf, out_file, out_parts,
          log, result>>

-----------------------------------------------------------------------------
(* Cells *)

S(s) == [k |-> "str", s |-> s, b |-> FALSE, n |-> 0]
B(b) == [k |-> "bool", s |-> "", b |-> b, n |-> 0]
N(n) == [k |-> "num", s |-> "", b |-> FALSE, n |-> n]
NaN == [k |-> "nan", s |-> "", b |-> FALSE, n |-> 0]

\* pd.isna / pd.notna
isna(v) == v.k = "nan"
notna(v) == ~isna(v)

-----------------------------------------------------------------------------
(* Python string methods *)

Min(a, b) == IF a < b THEN a ELSE b

Chr(s, i) == SubSeq(s, i, i)

UpperCase == "ABCDEFGHIJKLMNOPQRSTUVWXYZ"
LowerCase == "abcdefghijklmnopqrstuvwxyz"

IsUpperChar(c) == \E i \in 1..26 : Chr(UpperCase, i) = c
IsLowerChar(c) == \E i \in 1..26 : Chr(LowerCase, i) = c
IsCased(c) == IsUpperChar(c) \/ IsLowerChar(c)

LowerChar(c) ==
    IF IsUpperChar(c)
    THEN Chr(LowerCase, CHOOSE i \in 1..26 : Chr(UpperCase, i) = c)
    ELSE c

UpperChar(c) ==
    IF IsLowerChar(c)
    THEN Chr(UpperCase, CHOOSE i \in 1..26 : Chr(LowerCase, i) = c)
    ELSE c

\* str.isspace for one character
IsSpace(c) == c \in {" ", "\t", "\n", "\r", "\f"}

RECURSIVE str_lower(_)
str_lower(s) ==
    IF s = "" THEN "" ELSE LowerChar(Chr(s, 1)) \o str_lower(SubSeq(s, 2, Len(s)))

RECURSIVE LStrip(_)
LStrip(s) ==
    IF s # "" /\ IsSpace(Chr(s, 1)) THEN LStrip(SubSeq(s, 2, Len(s))) ELSE s

RECURSIVE RStrip(_)
RStrip(s) ==
    IF s # "" /\ IsSpace(Chr(s, Len(s))) THEN RStrip(SubSeq(s, 1, Len(s) - 1)) ELSE s

str_strip(s) == RStrip(LStrip(s))

\* s.replace(c, '') for a one-character c
RECURSIVE str_remove(_, _)
str_remove(s, c) ==
    IF s = "" THEN ""
    ELSE (IF Chr(s, 1) = c THEN "" ELSE Chr(s, 1)) \o str_remove(SubSeq(s, 2, Len(s)), c)

\* str.title: a cased character is upper-cased when the character before it
\* is not cased, and lower-cased otherwise
RECURSIVE TitleFrom(_, _)
TitleFrom(s, prevCased) ==
    IF s = "" THEN ""
    ELSE LET c == Chr(s, 1)
         IN (IF prevCased THEN LowerChar(c) ELSE UpperChar(c))
                \o TitleFrom(SubSeq(s, 2, Len(s)), IsCased(c))

str_title(s) == TitleFrom(s, FALSE)

RECURSIVE str_upper(_)
str_upper(s) ==
    IF s = "" THEN "" ELSE UpperChar(Chr(s, 1)) \o str_upper(SubSeq(s, 2, Len(s)))

str_startswith(s, p) == Len(s) >= Len(p) /\ SubSeq(s, 1, Len(p)) = p

str_endswith(s, p) == Len(s) >= Len(p) /\ SubSeq(s, Len(s) - Len(p) + 1, Len(s)) = p

\* s.replace(sub, '') for a non-empty sub
RECURSIVE str_remove_sub(_, _)
str_remove_sub(s, sub) ==
    IF s = "" THEN ""
    ELSE IF str_startswith(s, sub) THEN str_remove_sub(SubSeq(s, Len(sub) + 1, Len(s)), sub)
    ELSE Chr(s, 1) \o str_remove_sub(SubSeq(s, 2, Len(s)), sub)

\* s[:n]
str_prefix(s, n) == SubSeq(s, 1, Min(n, Len(s)))

-----------------------------------------------------------------------------
(* create_match_key, lines 190-193 *)

create_match_key(name) ==
    IF isna(name) THEN ""
    ELSE str_remove(str_remove(str_remove(str_strip(str_lower(name.s)), " "), "-"), ".")


-----------------------------------------------------------------------------
(* pandas DataFrame operations used by the script *)

\* f as an explicit tuple: the same sequence, its elements evaluated once
AsSeq(f) == f \o <<>>

\* F(v), with v evaluated once
Eager(v, F(_)) == CHOOSE y \in {F(x) : x \in {v}} : TRUE

DF(cols, dtypes, rows) ==
    [cols |-> AsSeq(cols), dtypes |-> AsSeq(dtypes),
     rows |-> AsSeq([r \in 1..Len(rows) |-> AsSeq(rows[r])])]
EmptyDF == [cols |-> <<>>, dtypes |-> <<>>, rows |-> <<>>]

Indices(n) == AsSeq([i \in 1..n |-> i])

RECURSIVE Flatten(_)
Flatten(ss) == IF ss = <<>> THEN <<>> ELSE Head(ss) \o Flatten(Tail(ss))

InSeq(x, seq) == \E i \in 1..Len(seq) : seq[i] = x

\* positions of the columns labelled c, in column order
Positions(cols, c) == SelectSeq(Indices(Len(cols)), LAMBDA i : cols[i] = c)

\* position of the first column labelled c
ColIndex(cols, c) == Head(Positions(cols, c))

\* df[c] for a label that names one column: the cells of that column
Column(df, c) == AsSeq([r \in 1..Len(df.rows) |-> df.rows[r][ColIndex(df.cols, c)]])

\* the sub-frame made of the columns at positions idx, in that order
TakeIdx(df, idx) ==
    DF([k \in 1..Len(idx) |-> df.cols[idx[k]]],
       [k \in 1..Len(idx) |-> df.dtypes[idx[k]]],
       [r \in 1..Len(df.rows) |-> [k \in 1..Len(idx) |-> df.rows[r][idx[k]]]])

\* df[labels]: for each label in turn, every column that carries it
TakeCols(df, labels) ==
    TakeIdx(df, Flatten([k \in 1..Len(labels) |-> Positions(df.cols, labels[k])]))

\* df.drop(columns=labels), labels a set
DropCols(df, labels) ==
    TakeIdx(df, SelectSeq(Indices(Len(df.cols)), LAMBDA i : df.cols[i] \notin labels))

\* mutant: duplicate labels are kept
DropDuplicateCols_Keep(df) == df

\* mutant: the last column of each label is kept
DropDuplicateCols_KeepLast(df) ==
    TakeIdx(df, SelectSeq(Indices(Len(df.cols)),
                          LAMBDA i : \A j \in (i + 1)..Len(df.cols) : df.cols[j] # df.cols[i]))

\* df.loc[:, ~df.columns.duplicated()]: the first column of each label
DropDuplicateCols(df) ==
    TakeIdx(df, SelectSeq(Indices(Len(df.cols)),
                          LAMBDA i : \A j \in 1..(i - 1) : df.cols[j] # df.cols[i]))

\* dtype pandas infers for a column of cells
InferDtype(cells) ==
    IF Len(cells) = 0 THEN "object"
    ELSE IF \A i \in 1..Len(cells) : cells[i].k \in {"num", "nan"} THEN "float64"
    ELSE IF \A i \in 1..Len(cells) : cells[i].k = "bool" THEN "bool"
    ELSE "object"

\* df[c] = cells with the given dtype: replaces the column labelled c, or
\* appends a new last column
SetColumn(df, c, dtype, cells) ==
    IF InSeq(c, df.cols)
    THEN LET p == ColIndex(df.cols, c)
         IN DF(df.cols, [df.dtypes EXCEPT ![p] = dtype],
               [r \in 1..Len(df.rows) |-> [df.rows[r] EXCEPT ![p] = cells[r]]])
    ELSE DF(Append(df.cols, c), Append(df.dtypes, dtype),
            [r \in 1..Len(df.rows) |-> Append(df.rows[r], cells[r])])

\* df[c] = df[c].fillna(v); a value of another kind turns the column to object
FillNa(df, c, v) ==
    LET old == Column(df, c)
        new == AsSeq([r \in 1..Len(old) |-> IF isna(old[r]) THEN v ELSE old[r]])
        p == ColIndex(df.cols, c)
        dt == IF \E r \in 1..Len(old) : isna(old[r])
              THEN (IF df.dtypes[p] = "float64" /\ v.k = "num" THEN "float64" ELSE "object")
              ELSE df.dtypes[p]
    IN SetColumn(df, c, dt, new)

\* df.rename(columns=f), f an operator on labels
RenameCols(df, f(_)) ==
    DF([i \in 1..Len(df.cols) |-> f(df.cols[i])], df.dtypes, df.rows)

\* mutant: an inner merge, a left row without a right row of its key is
\* dropped
MergeRows_Inner(l, lk, r, rk, rpart, key, ls, rs) ==
    DF([i \in 1..Len(l.cols) |->
            IF i # lk /\ InSeq(l.cols[i], rpart.cols) THEN l.cols[i] \o ls ELSE l.cols[i]]
        \o [i \in 1..Len(rpart.cols) |->
            IF InSeq(rpart.cols[i], l.cols) /\ rpart.cols[i] # key
            THEN rpart.cols[i] \o rs ELSE rpart.cols[i]],
       l.dtypes \o rpart.dtypes,
       Flatten([n \in 1..Len(l.rows) |->
            Eager(SelectSeq(Indices(Len(r.rows)), LAMBDA j : r.rows[j][rk] = l.rows[n][lk]),
                  LAMBDA matches :
                    [m \in 1..Len(matches) |-> l.rows[n] \o rpart.rows[matches[m]]])]))

\* the merge of l with r on the columns at lk and rk; rpart is r without
\* its key column
MergeRows(l, lk, r, rk, rpart, key, ls, rs) ==
    DF([i \in 1..Len(l.cols) |->
            IF i # lk /\ InSeq(l.cols[i], rpart.cols) THEN l.cols[i] \o ls ELSE l.cols[i]]
        \o [i \in 1..Len(rpart.cols) |->
            IF InSeq(rpart.cols[i], l.cols) /\ rpart.cols[i] # key
            THEN rpart.cols[i] \o rs ELSE rpart.cols[i]],
       l.dtypes \o rpart.dtypes,
       Flatten([n \in 1..Len(l.rows) |->
            Eager(SelectSeq(Indices(Len(r.rows)), LAMBDA j : r.rows[j][rk] = l.rows[n][lk]),
                  LAMBDA matches :
                    IF matches = <<>>
                    THEN << l.rows[n] \o [i \in 1..Len(rpart.cols) |-> NaN] >>
                    ELSE [m \in 1..Len(matches) |-> l.rows[n] \o rpart.rows[matches[m]]])]))

\* left.merge(right, on=key, how='left', suffixes=(ls, rs)).  Every left
\* row is kept, once per right row with an equal key (a missing key equals a
\* missing key), or once with missing right cells when no right row has its
\* key.  A label other than the key that both sides carry gets the suffixes.
Merge(left, right, key, ls, rs) ==
    Eager(<<left, ColIndex(left.cols, key), right, ColIndex(right.cols, key),
            TakeIdx(right, SelectSeq(Indices(Len(right.cols)),
                                     LAMBDA i : i # ColIndex(right.cols, key)))>>,
          LAMBDA a : MergeRows(a[1], a[2], a[3], a[4], a[5], key, ls, rs))

-----------------------------------------------------------------------------
(* Inputs: the boundary file and the workbook *)

MaxFeatures == 2        \* boundary features per dataset
MaxRankRows == 2        \* rows of the ranking sheet
MaxRecRows == 1         \* rows of the recommendation sheet
MaxAcronymRows == 2     \* rows of the acronym sheet
MaxKeyLen == 3          \* length of the names create_match_key is applied to

SeqsOf(X, lo, hi) == UNION {[1..n -> X] : n \in lo..hi}

\* the subsequences of seq of length at most n, order kept
RECURSIVE SubSeqsOf(_, _)
SubSeqsOf(seq, n) ==
    IF seq = <<>> \/ n = 0 THEN {<<>>}
    ELSE SubSeqsOf(Tail(seq), n)
            \cup {<<Head(seq)>> \o t : t \in SubSeqsOf(Tail(seq), n - 1)}

\* a sheet as pd.read_excel returns it: dtypes inferred per column
Sheet(cols, rows) ==
    DF(cols, [i \in 1..Len(cols) |-> InferDtype([r \in 1..Len(rows) |-> rows[r][i]])], rows)

BoundaryNames == {S("North-24 Parganas"), S("Pune"), NaN}

\* a boundary file with a NAME_2 column: two dummy attributes beside the names
BoundaryWithDistricts(names) ==
    DF(<<"NAME_1", "NAME_2", "Adaptation", "Crop", "geometry">>,
       <<"object", "object", "object", "object", "geometry">>,
       [i \in 1..Len(names) |->
            <<S("West Bengal"), names[i], S("Highly Suitable"), S("Wheat"),
              S("polygon " \o ToString(i))>>])

\* a boundary file of states only
BoundaryStatesOnly ==
    DF(<<"NAME_1", "Adaptation", "geometry">>, <<"object", "object", "geometry">>,
       << <<S("West Bengal"), S("Highly Suitable"), S("polygon 1")>> >>)

\* a boundary file that names its districts in a column 'District'
BoundaryDistrictColumn ==
    DF(<<"NAME_1", "District", "geometry">>, <<"object", "object", "geometry">>,
       << <<S("West Bengal"), S("North-24 Parganas"), S("polygon 1")>> >>)

\* a boundary file whose one district name is spaces, hyphens and periods
BoundaryBlankName == BoundaryWithDistricts(<<S(" -.")>>)

BoundaryDatasets ==
    {BoundaryWithDistricts(names) : names \in SeqsOf(BoundaryNames, 1, MaxFeatures)}
        \cup {BoundaryStatesOnly, BoundaryDistrictColumn, BoundaryBlankName}

RankRows ==
    { <<S("North 24 Parganas"), S("Highly Suitable"), S("Very High Suitable"),
        S("Highly Suitable (On Grid)")>>,
      <<S("north 24 parganas "), S("Unranked"), NaN, S("Less Suitable")>>,
      <<NaN, S("Moderately Suitable"), S("Less Suitable"), S("Moderately Suitable")>> }

RankingSheet(rows) == Sheet(<<"District", "Adaptation", "Mitigation", "Replacement">>, rows)

LabelStatus == "Groundwater Development Status"
LabelStage == "Groundwater Development Stage"
AllRecLabels == <<LabelStatus, LabelStage, "Crop", "Wells">>

RecCell(label) ==
    CASE label = LabelStatus -> S("Safe")
      [] label = LabelStage -> S("Stage II")
      [] label = "Crop" -> S("Rice")
      [] OTHER -> N(12)

RecDistricts == {S("NORTH 24 PARGANAS"), S("North-24 Parganas")}

RecSheet(labels, districts) ==
    Sheet(<<"State", "District">> \o labels,
          [r \in 1..Len(districts) |->
              <<S("West Bengal"), districts[r]>> \o [i \in 1..Len(labels) |-> RecCell(labels[i])]])

AcronymRows ==
    << <<S(LabelStatus), S("GW_Status")>>,
       <<S(LabelStage), S("GW_Status")>>,
       <<S("Crop"), S("Cropping_Pattern")>>,
       <<S("Wells"), NaN>>,
       <<NaN, S("Unused")>> >>

AcronymSheet(rows) == Sheet(<<"Original", "GIS Raw data layer">>, rows)

CommunityRows ==
    { <<S("west bengal"), S("North 24 Parganas"), S("Community SIP")>>,
      <<S("west bengal"), S("North 24 Parganas"), S("Individual")>> }

CommunitySheet(rows) == Sheet(<<"State", "District", "Final">>, rows)

PotentialRows ==
    { <<S("north 24 parganas"), S("Highly Suitable (Mitigation)")>>,
      <<S("Pune"), S("Less Suitable")>> }

PotentialSheet(rows) == Sheet(<<"District", "Final Potential">>, rows)

WB(ranking, rec, community, acronym, potential) ==
    [ranking |-> ranking, rec |-> rec, community |-> community,
     acronym |-> acronym, potential |-> potential]

NoWorkbook == WB(EmptyDF, EmptyDF, EmptyDF, EmptyDF, EmptyDF)

\* workbooks whose rows vary, under one schema of the recommendation sheet
RowWorkbooks ==
    { WB(RankingSheet(rk), RecSheet(<<LabelStatus, "Crop", "Wells">>, rd),
         CommunitySheet(cm), AcronymSheet(<<AcronymRows[1]>>), PotentialSheet(pt)) :
        rk \in SeqsOf(RankRows, 1, MaxRankRows),
        rd \in SeqsOf(RecDistricts, 0, MaxRecRows),
        cm \in SeqsOf(CommunityRows, 0, 1),
        pt \in SeqsOf(PotentialRows, 0, 1) }

\* workbooks whose recommendation labels and acronym rows vary
SchemaWorkbooks ==
    { WB(RankingSheet(<< <<S("North 24 Parganas"), S("Highly Suitable"),
                          S("Very High Suitable"), S("Highly Suitable (On Grid)")>> >>),
         RecSheet(labels, <<S("NORTH 24 PARGANAS")>>),
         CommunitySheet(<< <<S("west bengal"), S("North 24 Parganas"), S("Community SIP")>> >>),
         AcronymSheet(ac),
         PotentialSheet(<< <<S("north 24 parganas"), S("Highly Suitable (Mitigation)")>> >>)) :
        labels \in SubSeqsOf(AllRecLabels, Len(AllRecLabels)),
        ac \in SubSeqsOf(AcronymRows, MaxAcronymRows) }

\* a workbook with all its sheets as expected
PlainWorkbook ==
    WB(RankingSheet(<< <<S("North 24 Parganas"), S("Highly Suitable"),
                         S("Very High Suitable"), S("Highly Suitable (On Grid)")>> >>),
       RecSheet(<<"Crop">>, <<S("NORTH 24 PARGANAS")>>),
       CommunitySheet(<< <<S("west bengal"), S("North 24 Parganas"), S("Community SIP")>> >>),
       AcronymSheet(<<AcronymRows[1]>>),
       PotentialSheet(<< <<S("north 24 parganas"), S("Highly Suitable (Mitigation)")>> >>))

\* workbooks in which one sheet lacks a column the script reads
MalformedWorkbooks ==
    { [PlainWorkbook EXCEPT !.acronym =
            Sheet(<<"Label", "GIS Raw data layer">>, << <<S("Crop"), S("Crop_Pat")>> >>)],
      [PlainWorkbook EXCEPT !.acronym = Sheet(<<"Original", "Short">>, <<>>)],
      [PlainWorkbook EXCEPT !.ranking =
            Sheet(<<"District", "Adaptation", "Mitigation">>,
                  << <<S("North 24 Parganas"), S("Highly Suitable"), S("Very High Suitable")>> >>)],
      [PlainWorkbook EXCEPT !.rec =
            Sheet(<<"State", "Name", "Crop">>,
                  << <<S("West Bengal"), S("NORTH 24 PARGANAS"), S("Rice")>> >>)],
      [PlainWorkbook EXCEPT !.community =
            Sheet(<<"State", "District">>, << <<S("west bengal"), S("North 24 Parganas")>> >>)],
      [PlainWorkbook EXCEPT !.potential =
            Sheet(<<"District", "Potential">>,
                  << <<S("north 24 parganas"), S("Highly Suitable (Mitigation)")>> >>)] }

\* a workbook whose ranking sheet has a district name of spaces, hyphens
\* and periods
BlankDistrictWorkbook ==
    [PlainWorkbook EXCEPT !.ranking =
        RankingSheet(<< <<S(" - ."), S("Less Suitable"), S("Highly Suitable"),
                          S("Moderately Suitable")>> >>)]

Workbooks ==
    RowWorkbooks \cup SchemaWorkbooks \cup MalformedWorkbooks \cup {BlankDistrictWorkbook}

-----------------------------------------------------------------------------
(* The run of create_true_solar_suitability_shapefile *)

Init ==
    /\ pc = "start"
    /\ shp_exists \in BOOLEAN
    /\ shp_file \in (IF shp_exists THEN BoundaryDatasets ELSE {EmptyDF})
    /\ report = {}
    /\ gdf = EmptyDF
    /\ name_columns = <<>>
    /\ workbook = NoWorkbook
    /\ acronym_mapping = <<>>
    /\ district_rec_processed = EmptyDF
    /\ master_data = EmptyDF
    /\ merged_gdf = EmptyDF
    /\ successful_merges = 0
    /\ essential_cols = <<>>
    /\ district_rec_cols = <<>>
    /\ final_gdf = EmptyDF
    /\ out_file = EmptyDF
    /\ out_parts = {}
    /\ log = {}
    /\ result = "none"
    /\ kname = NaN
    /\ kkey = <<>>

\* mutant: the message is printed and the function ends without a value
ReturnFalse_NoValue(msg) ==
    /\ log' = log \cup {msg}
    /\ result' = "none"
    /\ pc' = "done"

\* return False
ReturnFalse(msg) ==
    /\ log' = log \cup {msg}
    /\ result' = "False"
    /\ pc' = "done"

\* an exception no handler catches ends the run without a return value
Raise(msg) ==
    /\ log' = log \cup {msg}
    /\ result' = "none"
    /\ pc' = "crashed"

\* 1. Loading original shapefile
LoadShapefile ==
    /\ pc = "start"
    /\ shp_exists
    /\ gdf' = shp_file
    /\ log' = log \cup {"Loaded shapefile"}
    /\ pc' = "clean"
    /\ UNCHANGED <<shp_exists, shp_file, report,
                   name_columns, workbook, acronym_mapping,
                   district_rec_processed, master_data, merged_gdf, successful_merges,
                   essential_cols, district_rec_cols, final_gdf, out_file, out_parts,
                   result,
                   kname, kkey>>

ShapefileNotFound ==
    /\ pc = "start"
    /\ ~shp_exists
    /\ ReturnFalse("Solar_Suitability_layer.shp not found!")
    /\ UNCHANGED <<shp_exists, shp_file, report,
                   gdf, name_columns, workbook, acronym_mapping,
                   district_rec_processed, master_data, merged_gdf, successful_merges,
                   essential_cols, district_rec_cols, final_gdf, out_file, out_parts,
                   kname, kkey>>

ShapefileLoadError ==
    /\ pc = "start"
    /\ shp_exists
    /\ ReturnFalse("Error loading shapefile")
    /\ UNCHANGED <<shp_exists, shp_file, report,
                   gdf, name_columns, workbook, acronym_mapping,
                   district_rec_processed, master_data, merged_gdf, successful_merges,
                   essential_cols, district_rec_cols, final_gdf, out_file, out_parts,
                   kname, kkey>>

\* mutant: every column of the boundary file is kept
IsNameColumn_Any(col) == TRUE

IsNameColumn(col) == str_startswith(str_upper(col), "NAME_") \/ str_upper(col) = "NAME"

\* 1.5. Keep only the NAME columns and the geometry
CleanShapefile ==
    /\ pc = "clean"
    /\ \E names \in {SelectSeq(gdf.cols, IsNameColumn)} :
          /\ name_columns' = names
          /\ gdf' = TakeCols(gdf, <<"geometry">> \o names)
    /\ pc' = "excel"
    /\ UNCHANGED <<shp_exists, shp_file, report,
                   workbook, acronym_mapping,
                   district_rec_processed, master_data, merged_gdf, successful_merges,
                   essential_cols, district_rec_cols, final_gdf, out_file, out_parts,
                   log, result,
                   kname, kkey>>

\* 2. Loading Excel workbook
LoadExcel ==
    /\ pc = "excel"
    /\ \E w \in Workbooks : workbook' = w
    /\ log' = log \cup {"Loaded Excel data"}
    /\ pc' = "acronym"
    /\ UNCHANGED <<shp_exists, shp_file, report,
                   gdf, name_columns, acronym_mapping,
                   district_rec_processed, master_data, merged_gdf, successful_merges,
                   essential_cols, district_rec_cols, final_gdf, out_file, out_parts,
                   result,
                   kname, kkey>>

\* the workbook cannot be read, or a sheet is not in it
ExcelLoadError ==
    /\ pc = "excel"
    /\ ReturnFalse("Error loading Excel file")
    /\ UNCHANGED <<shp_exists, shp_file, report,
                   gdf, name_columns, workbook, acronym_mapping,
                   district_rec_processed, master_data, merged_gdf, successful_merges,
                   essential_cols, district_rec_cols, final_gdf, out_file, out_parts,
                   kname, kkey>>

\* mutant: only the original label is tested for a missing value
AcronymDict_OriginalOnly(sheet) ==
    LET orig == Column(sheet, "Original")
        gis == Column(sheet, "GIS Raw data layer")
        ok == SelectSeq(Indices(Len(sheet.rows)), LAMBDA r : notna(orig[r]))
        keys == {orig[ok[k]].s : k \in 1..Len(ok)}
        last(key) == CHOOSE k \in 1..Len(ok) :
                        /\ orig[ok[k]].s = key
                        /\ \A j \in (k + 1)..Len(ok) : orig[ok[j]].s # key
    IN [key \in keys |-> gis[ok[last(key)]].s]

\* the dict built by the loop over the rows of the acronym sheet: a later
\* row with the same label overwrites an earlier one
AcronymDict(sheet) ==
    LET orig == Column(sheet, "Original")
        gis == Column(sheet, "GIS Raw data layer")
        ok == SelectSeq(Indices(Len(sheet.rows)), LAMBDA r : notna(orig[r]) /\ notna(gis[r]))
        keys == {orig[ok[k]].s : k \in 1..Len(ok)}
        last(key) == CHOOSE k \in 1..Len(ok) :
                        /\ orig[ok[k]].s = key
                        /\ \A j \in (k + 1)..Len(ok) : orig[ok[j]].s # key
    IN [key \in keys |-> gis[ok[last(key)]].s]

\* df has a column of every label
HasCols(df, labels) == \A c \in labels : InSeq(c, df.cols)

\* 3.1 Processing GIS acronym mappings: row['Original'] and
\* row['GIS Raw data layer'] are read for each row of the sheet
BuildAcronymMapping ==
    /\ pc = "acronym"
    /\ IF workbook.acronym.rows = <<>>
       THEN /\ acronym_mapping' = <<>>
            /\ pc' = "rename"
            /\ UNCHANGED <<log, result>>
       ELSE IF HasCols(workbook.acronym, {"Original", "GIS Raw data layer"})
       THEN /\ acronym_mapping' = AcronymDict(workbook.acronym)
            /\ pc' = "rename"
            /\ UNCHANGED <<log, result>>
       ELSE /\ Raise("KeyError: column not in sheet")
            /\ UNCHANGED acronym_mapping
    /\ UNCHANGED <<shp_exists, shp_file, report,
                   gdf, name_columns, workbook,
                   district_rec_processed, master_data, merged_gdf, successful_merges,
                   essential_cols, district_rec_cols, final_gdf, out_file, out_parts,
                   kname, kkey>>

FieldNameLimit == 10

\* mutant: a label the mapping does not have is kept whole
new_col_name_NoTruncation(mapping, col) ==
    IF col \in {"State", "District"} THEN col
    ELSE IF col \in DOMAIN mapping THEN mapping[col]
    ELSE col

\* the new name of a column of the recommendation sheet, lines 108-121
new_col_name(mapping, col) ==
    IF col \in {"State", "District"} THEN col
    ELSE IF col \in DOMAIN mapping THEN mapping[col]
    ELSE str_prefix(col, FieldNameLimit)

\* 3.2 Processing District Recommendations
ProcessDistrictRecommendations ==
    /\ pc = "rename"
    /\ district_rec_processed' =
            RenameCols(workbook.rec, LAMBDA c : new_col_name(acronym_mapping, c))
    /\ pc' = "master"
    /\ UNCHANGED <<shp_exists, shp_file, report,
                   gdf, name_columns, workbook, acronym_mapping,
                   master_data, merged_gdf, successful_merges,
                   essential_cols, district_rec_cols, final_gdf, out_file, out_parts,
                   log, result,
                   kname, kkey>>

\* 3.3 Create master data from solar ranking as base
CreateMasterData ==
    /\ pc = "master"
    /\ IF Len(workbook.ranking.cols) = 4
       THEN /\ master_data' = DF(<<"District", "Adaptation_New", "Mitigation_New",
                                   "Replacement_New">>,
                                 workbook.ranking.dtypes, workbook.ranking.rows)
            /\ pc' = "merge_rec"
            /\ UNCHANGED <<log, result>>
       ELSE /\ Raise("ValueError: Length mismatch")
            /\ master_data' = workbook.ranking
    /\ UNCHANGED <<shp_exists, shp_file, report,
                   gdf, name_columns, workbook, acronym_mapping,
                   district_rec_processed, merged_gdf, successful_merges,
                   essential_cols, district_rec_cols, final_gdf, out_file, out_parts,
                   kname, kkey>>

\* Series.str is defined for columns of dtype object only
HasStrAccessor(df, c) == df.dtypes[ColIndex(df.cols, c)] = "object"

\* mutant: the name is stripped and not title-cased
district_clean_StripOnly(v) == IF v.k = "str" THEN S(str_strip(v.s)) ELSE NaN

\* one cell of df[c].str.title().str.strip(); a cell that is no string gives NaN
district_clean(v) == IF v.k = "str" THEN S(str_strip(str_title(v.s))) ELSE NaN

\* df['District_Clean'] = df['District'].str.title().str.strip()
WithDistrictClean(df) ==
    LET d == Column(df, "District")
    IN SetColumn(df, "District_Clean", "object", [r \in 1..Len(d) |-> district_clean(d[r])])

\* the joined columns a label of the base already names, lines 149-151
DuplicateRecCols(cols) ==
    {cols[i] : i \in {j \in 1..Len(cols) :
                        /\ str_endswith(cols[j], "_district_rec")
                        /\ InSeq(str_remove_sub(cols[j], "_district_rec"), cols)}}

\* lines 136-151
MergedWithRecommendations(master, rec) ==
    LET joined == Merge(WithDistrictClean(master), WithDistrictClean(rec),
                        "District_Clean", "", "_district_rec")
    IN DropCols(joined, DuplicateRecCols(joined.cols))

\* 3.4 Merging solar ranking with district recommendations
MergeDistrictRecommendations ==
    /\ pc = "merge_rec"
    /\ IF ~HasStrAccessor(master_data, "District")
       THEN /\ Raise("AttributeError: Can only use .str accessor with string values")
            /\ UNCHANGED <<master_data, district_rec_processed>>
       ELSE IF ~InSeq("District", district_rec_processed.cols)
       THEN /\ Raise("KeyError: column not in sheet")
            /\ master_data' = WithDistrictClean(master_data)
            /\ UNCHANGED district_rec_processed
       ELSE IF ~HasStrAccessor(district_rec_processed, "District")
       THEN /\ Raise("AttributeError: Can only use .str accessor with string values")
            /\ master_data' = WithDistrictClean(master_data)
            /\ UNCHANGED district_rec_processed
       ELSE /\ master_data' = MergedWithRecommendations(master_data, district_rec_processed)
            /\ district_rec_processed' = WithDistrictClean(district_rec_processed)
            /\ pc' = "community"
            /\ UNCHANGED <<log, result>>
    /\ UNCHANGED <<shp_exists, shp_file, report,
                   gdf, name_columns, workbook, acronym_mapping,
                   merged_gdf, successful_merges,
                   essential_cols, district_rec_cols, final_gdf, out_file, out_parts,
                   kname, kkey>>

\* community_sip_clean, lines 157-160
CommunitySipClean(sheet) ==
    LET c0 == TakeCols(sheet, <<"State", "District", "Final">>)
        st == Column(c0, "State")
        c1 == SetColumn(c0, "State", "object",
                        [r \in 1..Len(st) |->
                            IF st[r].k = "str" THEN S(str_title(st[r].s)) ELSE NaN])
    IN RenameCols(WithDistrictClean(c1),
                  LAMBDA c : IF c = "Final" THEN "Community_SIP" ELSE c)

\* lines 162-169
WithCommunitySip(master, sheet) ==
    FillNa(Merge(master, TakeCols(CommunitySipClean(sheet), <<"District_Clean", "Community_SIP">>),
                 "District_Clean", "_x", "_y"),
           "Community_SIP", S(""))

\* 3.5 Adding Community SIP information
AddCommunitySip ==
    /\ pc = "community"
    /\ IF ~HasCols(workbook.community, {"State", "District", "Final"})
       THEN /\ Raise("KeyError: column not in sheet")
            /\ UNCHANGED master_data
       ELSE IF HasStrAccessor(workbook.community, "State")
                /\ HasStrAccessor(workbook.community, "District")
       THEN /\ master_data' = WithCommunitySip(master_data, workbook.community)
            /\ pc' = "potential"
            /\ UNCHANGED <<log, result>>
       ELSE /\ Raise("AttributeError: Can only use .str accessor with string values")
            /\ UNCHANGED master_data
    /\ UNCHANGED <<shp_exists, shp_file, report,
                   gdf, name_columns, workbook, acronym_mapping,
                   district_rec_processed, merged_gdf, successful_merges,
                   essential_cols, district_rec_cols, final_gdf, out_file, out_parts,
                   kname, kkey>>

\* potential_clean, lines 173-175
PotentialClean(sheet) ==
    RenameCols(WithDistrictClean(TakeCols(sheet, <<"District", "Final Potential">>)),
               LAMBDA c : IF c = "Final Potential" THEN "Overall_Potential" ELSE c)

\* lines 177-181
WithPotential(master, sheet) ==
    Merge(master, TakeCols(PotentialClean(sheet), <<"District_Clean", "Overall_Potential">>),
          "District_Clean", "_x", "_y")

\* 3.6 Adding potential data
AddPotentialData ==
    /\ pc = "potential"
    /\ IF ~HasCols(workbook.potential, {"District", "Final Potential"})
       THEN /\ Raise("KeyError: column not in sheet")
            /\ UNCHANGED master_data
       ELSE IF HasStrAccessor(workbook.potential, "District")
       THEN /\ master_data' = WithPotential(master_data, workbook.potential)
            /\ pc' = "match"
            /\ UNCHANGED <<log, result>>
       ELSE /\ Raise("AttributeError: Can only use .str accessor with string values")
            /\ UNCHANGED master_data
    /\ UNCHANGED <<shp_exists, shp_file, report,
                   gdf, name_columns, workbook, acronym_mapping,
                   district_rec_processed, merged_gdf, successful_merges,
                   essential_cols, district_rec_cols, final_gdf, out_file, out_parts,
                   kname, kkey>>

\* mutant: the key is the lower-cased name
WithMatchKey_LowerOnly(df, c) ==
    LET d == Column(df, c)
    IN SetColumn(df, "match_key", "object",
                 [r \in 1..Len(d) |-> S(IF isna(d[r]) THEN "" ELSE str_lower(d[r].s))])

\* df['match_key'] = df[c].apply(create_match_key)
WithMatchKey(df, c) ==
    LET d == Column(df, c)
    IN SetColumn(df, "match_key", "object",
                 [r \in 1..Len(d) |-> S(create_match_key(d[r]))])

\* the boundary column the keys are made of, lines 199-207
MatchColumn(cols) ==
    IF InSeq("NAME_2", cols) THEN "NAME_2"
    ELSE IF InSeq("District", cols) THEN "District"
    ELSE "none"

\* mutant: the records with an empty key are left out of the merge
MergeWithShapefile_SkipEmpty(g, master) ==
    Merge(g,
          DF(master.cols, master.dtypes,
             SelectSeq(master.rows,
                       LAMBDA row : row[ColIndex(master.cols, "match_key")] # S(""))),
          "match_key", "_x", "_y")

\* gdf.merge(master_data, on='match_key', how='left')
MergeWithShapefile(g, master) == Merge(g, master, "match_key", "_x", "_y")

\* mutant: every row of the merge is counted
CountNotNa_AllRows(cells) == Len(cells)

\* Series.notna().sum()
CountNotNa(cells) == Cardinality({r \in 1..Len(cells) : notna(cells[r])})

\* 4. Matching with shapefile
MatchWithShapefile ==
    /\ pc = "match"
    /\ MatchColumn(gdf.cols) # "none"
    /\ \E master \in {WithMatchKey(master_data, "District_Clean")} :
       \E g \in {WithMatchKey(gdf, MatchColumn(gdf.cols))} :
       \E merged \in {MergeWithShapefile(g, master)} :
       \E n \in {CountNotNa(Column(merged, "Adaptation_New"))} :
          /\ master_data' = master
          /\ gdf' = g
          /\ merged_gdf' = merged
          /\ successful_merges' = n
          /\ log' = log \cup (IF n = 0 THEN {"Warning: No successful matches found!"} ELSE {})
    /\ pc' = "finalize"
    /\ UNCHANGED <<shp_exists, shp_file, report,
                   name_columns, workbook, acronym_mapping,
                   district_rec_processed,
                   essential_cols, district_rec_cols, final_gdf, out_file, out_parts,
                   result,
                   kname, kkey>>

NoDistrictColumn ==
    /\ pc = "match"
    /\ MatchColumn(gdf.cols) = "none"
    /\ master_data' = WithMatchKey(master_data, "District_Clean")
    /\ ReturnFalse("No suitable district column found in shapefile")
    /\ UNCHANGED <<shp_exists, shp_file, report,
                   gdf, name_columns, workbook, acronym_mapping,
                   district_rec_processed, merged_gdf, successful_merges,
                   essential_cols, district_rec_cols, final_gdf, out_file, out_parts,
                   kname, kkey>>

\* mutant: the targets of two ranking columns are exchanged
core_suitability_mapping_Swapped ==
    << <<"Adaptation_New", "Adapt">>,
       <<"Mitigation_New", "Replace">>,
       <<"Replacement_New", "Mitigate">>,
       <<"Overall_Potential", "General_SI">>,
       <<"Community_SIP", "Comm_SIP">>,
       <<"State", "State_Name">>,
       <<"District", "Dist_Name">> >>

core_suitability_mapping ==
    << <<"Adaptation_New", "Adapt">>,
       <<"Mitigation_New", "Mitigate">>,
       <<"Replacement_New", "Replace">>,
       <<"Overall_Potential", "General_SI">>,
       <<"Community_SIP", "Comm_SIP">>,
       <<"State", "State_Name">>,
       <<"District", "Dist_Name">> >>

\* lines 256-260, from the i-th entry of the mapping on
RECURSIVE ApplyCoreMapping(_, _, _)
ApplyCoreMapping(m, ess, i) ==
    IF i > Len(core_suitability_mapping) THEN [m |-> m, ess |-> ess]
    ELSE LET old_name == core_suitability_mapping[i][1]
             new_name == core_suitability_mapping[i][2]
         IN IF InSeq(old_name, m.cols)
            THEN ApplyCoreMapping(
                    SetColumn(m, new_name, m.dtypes[ColIndex(m.cols, old_name)],
                              Column(m, old_name)),
                    Append(ess, new_name), i + 1)
            ELSE ApplyCoreMapping(m, ess, i + 1)

\* mutant: the flag is set for every marker that is not empty
WithHasCommSI_AnyMarker(st) ==
    IF InSeq("Comm_SIP", st.m.cols)
    THEN LET c == Column(st.m, "Comm_SIP")
         IN [m |-> SetColumn(st.m, "Has_CommSI", "bool",
                             [r \in 1..Len(c) |-> B(notna(c[r]) /\ c[r] # S(""))]),
             ess |-> Append(st.ess, "Has_CommSI")]
    ELSE st

\* lines 262-265
WithHasCommSI(st) ==
    IF InSeq("Comm_SIP", st.m.cols)
    THEN LET c == Column(st.m, "Comm_SIP")
         IN [m |-> SetColumn(st.m, "Has_CommSI", "bool",
                             [r \in 1..Len(c) |-> B(c[r] = S("Community SIP"))]),
             ess |-> Append(st.ess, "Has_CommSI")]
    ELSE st

\* mutant: the key columns of the sheets are not skipped
SkipCols_NoKeys(g) ==
    {"geometry", "match_key", "District_Clean", "Adaptation_New", "Mitigation_New",
     "Replacement_New", "Overall_Potential", "Community_SIP",
     "Adapt", "Mitigate", "Replace", "General_SI", "Comm_SIP", "State_Name",
     "Dist_Name", "Has_CommSI"} \cup {g.cols[i] : i \in {j \in 1..Len(g.cols) : g.cols[j] # "geometry"}}

\* skip_cols, lines 274-277
SkipCols(g) ==
    {"geometry", "match_key", "District_Clean", "Adaptation_New", "Mitigation_New",
     "Replacement_New", "Overall_Potential", "Community_SIP", "State", "District",
     "Adapt", "Mitigate", "Replace", "General_SI", "Comm_SIP", "State_Name",
     "Dist_Name", "Has_CommSI"} \cup {g.cols[i] : i \in {j \in 1..Len(g.cols) : g.cols[j] # "geometry"}}

\* the remaining columns of the merge, lines 271-282
DistrictRecCols(m, ess, g) ==
    SelectSeq(m.cols, LAMBDA c : c \notin SkipCols(g) /\ ~InSeq(c, ess))

\* lines 230-235
CleanedMerge(m) == DropDuplicateCols(DropCols(DropCols(m, {"match_key"}), {"District_Clean"}))

\* lines 238-243
BoundaryCols(g) ==
    <<"geometry">> \o SelectSeq(g.cols, LAMBDA c : c # "geometry" /\ c # "match_key")

\* 5. Finalizing new shapefile: the columns of the output
FinalizeColumns ==
    /\ pc = "finalize"
    /\ \E core \in {WithHasCommSI(ApplyCoreMapping(CleanedMerge(merged_gdf), BoundaryCols(gdf), 1))} :
       \E rec \in {DistrictRecCols(core.m, core.ess, gdf)} :
       \E ess \in {core.ess \o rec} :
          /\ merged_gdf' = core.m
          /\ essential_cols' = ess
          /\ district_rec_cols' = rec
          /\ IF \A i \in 1..Len(ess) : InSeq(ess[i], core.m.cols)
             THEN /\ final_gdf' = TakeCols(core.m, ess)
                  /\ pc' = "fill"
                  /\ UNCHANGED <<log, result>>
             ELSE /\ Raise("KeyError: not in index")
                  /\ UNCHANGED final_gdf
    /\ UNCHANGED <<shp_exists, shp_file, report,
                   gdf, name_columns, workbook, acronym_mapping,
                   district_rec_processed, master_data, successful_merges,
                   out_file, out_parts, kname, kkey>>

\* fillna(v) on each column of labels, in turn, that the frame has
RECURSIVE FillEach(_, _, _)
FillEach(df, labels, v) ==
    IF labels = <<>> THEN df
    ELSE FillEach(IF InSeq(Head(labels), df.cols) THEN FillNa(df, Head(labels), v) ELSE df,
                  Tail(labels), v)

\* lines 305-311
RECURSIVE FillRecCols(_, _)
FillRecCols(df, labels) ==
    IF labels = <<>> THEN df
    ELSE LET c == Head(labels)
         IN FillRecCols(
                IF InSeq(c, df.cols)
                THEN FillNa(df, c, IF df.dtypes[ColIndex(df.cols, c)] = "object"
                                   THEN S("N/A") ELSE N(0))
                ELSE df,
                Tail(labels))

\* mutant: only the recommendation columns are filled
Filled_NoDefaults(df, rec) == FillRecCols(df, rec)

\* lines 293-311
Filled(df, rec) ==
    FillRecCols(
        FillEach(FillEach(FillEach(df, <<"Adapt", "Mitigate", "Replace", "General_SI">>,
                                   S("No Data")),
                          <<"Comm_SIP">>, S("")),
                 <<"Has_CommSI">>, B(FALSE)),
        rec)

HasDuplicateCols(cols) == \E i, j \in 1..Len(cols) : i < j /\ cols[i] = cols[j]

\* 5. Finalizing new shapefile: missing values, then the check for
\* duplicate columns of lines 317-321
FillMissing ==
    /\ pc = "fill"
    /\ \E f \in {Filled(final_gdf, district_rec_cols)} :
          IF HasDuplicateCols(f.cols)
          THEN /\ final_gdf' = DropDuplicateCols(f)
               /\ log' = log \cup {"Warning: Duplicate columns found"}
          ELSE /\ final_gdf' = f
               /\ UNCHANGED log
    /\ pc' = "save"
    /\ UNCHANGED <<shp_exists, shp_file, report,
                   gdf, name_columns, workbook, acronym_mapping,
                   district_rec_processed, master_data, merged_gdf, successful_merges,
                   essential_cols, district_rec_cols, out_file, out_parts, result, kname, kkey>>

\* the files of a shapefile, in the order the writer makes them
OutputSet == <<".shp", ".shx", ".dbf", ".prj", ".cpg">>

\* 6. Saving new shapefile
SaveShapefile ==
    /\ pc = "save"
    /\ out_file' = final_gdf
    /\ out_parts' = {OutputSet[i] : i \in 1..Len(OutputSet)}
    /\ log' = log \cup {"Successfully saved"}
    /\ pc' = "report"
    /\ UNCHANGED <<shp_exists, shp_file, report,
                   gdf, name_columns, workbook, acronym_mapping,
                   district_rec_processed, master_data, merged_gdf, successful_merges,
                   essential_cols, district_rec_cols, final_gdf, result, kname, kkey>>

\* to_file raises after it has made n files of the set; the handler of
\* lines 341-343 prints and returns, the files made stay
SaveError ==
    /\ pc = "save"
    /\ \E n \in 0..Len(OutputSet) : out_parts' = {OutputSet[i] : i \in 1..n}
    /\ ReturnFalse("Error saving shapefile")
    /\ UNCHANGED <<shp_exists, shp_file, report,
                   gdf, name_columns, workbook, acronym_mapping,
                   district_rec_processed, master_data, merged_gdf, successful_merges,
                   essential_cols, district_rec_cols, final_gdf, out_file, kname, kkey>>

\* the fields the report counts, line 349
objectives == <<"Adapt", "Mitigate", "Replace", "General_SI">>

\* mutant: every distinct value is counted once
value_counts_Unique(cells) ==
    {[value |-> v, count |-> 1] :
        v \in {cells[r] : r \in {q \in 1..Len(cells) : notna(cells[q])}}}

\* Series.value_counts(): the count of each distinct value, missing values
\* left out
value_counts(cells) ==
    {[value |-> v, count |-> Cardinality({r \in 1..Len(cells) : cells[r] = v})] :
        v \in {cells[r] : r \in {q \in 1..Len(cells) : notna(cells[q])}}}

\* f"{(count / total) * 100:.1f}", in tenths of a percent
percentage(count, total) ==
    LET q == (count * 1000) \div total
        rem == (count * 1000) % total
    IN IF 2 * rem > total \/ (2 * rem = total /\ q % 2 = 1) THEN q + 1 ELSE q

\* the lines "value: count (percentage%)" printed for the objectives
ReportLines(df) ==
    UNION {
        {[objective |-> objectives[o], value |-> vc.value, count |-> vc.count,
          percentage |-> percentage(vc.count, Len(df.rows))] :
            vc \in IF InSeq(objectives[o], df.cols)
                   THEN value_counts(Column(df, objectives[o])) ELSE {}} :
        o \in 1..Len(objectives)}

\* 7. Summary Report
SummaryReport ==
    /\ pc = "report"
    /\ report' = ReportLines(final_gdf)
    /\ log' = log \cup {"Summary Report"}
                  \cup (IF InSeq("Has_CommSIP", final_gdf.cols)
                        THEN {"Community SIP Districts"} ELSE {})
    /\ result' = "True"
    /\ pc' = "done"
    /\ UNCHANGED <<shp_exists, shp_file, gdf, name_columns, workbook, acronym_mapping,
                   district_rec_processed, master_data, merged_gdf, successful_merges,
                   essential_cols, district_rec_cols, final_gdf, out_file, out_parts,
                   kname, kkey>>

\* mutant: the instructions are printed whatever the call returned
UpdateApp_Unconditional ==
    /\ pc = "done"
    /\ "Updating App Configuration" \notin log
    /\ log' = log \cup {"Updating App Configuration"}
    /\ UNCHANGED <<pc, shp_exists, shp_file, report,
                   gdf, name_columns, workbook, acronym_mapping,
                   district_rec_processed, master_data, merged_gdf, successful_merges,
                   essential_cols, district_rec_cols, final_gdf, out_file, out_parts,
                   result, kname, kkey>>

\* __main__, lines 392-394: if success, update_app_for_new_shapefile()
UpdateApp ==
    /\ pc = "done"
    /\ result = "True"
    /\ "Updating App Configuration" \notin log
    /\ log' = log \cup {"Updating App Configuration"}
    /\ UNCHANGED <<pc, shp_exists, shp_file, report,
                   gdf, name_columns, workbook, acronym_mapping,
                   district_rec_processed, master_data, merged_gdf, successful_merges,
                   essential_cols, district_rec_cols, final_gdf, out_file, out_parts,
                   result, kname, kkey>>

\* __main__, lines 395-396: the call returned False
MainFailed ==
    /\ pc = "done"
    /\ result = "False"
    /\ "Failed to create new shapefile" \notin log
    /\ log' = log \cup {"Failed to create new shapefile"}
    /\ UNCHANGED <<pc, shp_exists, shp_file, report,
                   gdf, name_columns, workbook, acronym_mapping,
                   district_rec_processed, master_data, merged_gdf, successful_merges,
                   essential_cols, district_rec_cols, final_gdf, out_file, out_parts,
                   result, kname, kkey>>

Next ==
    \/ LoadShapefile
    \/ ShapefileNotFound
    \/ ShapefileLoadError
    \/ CleanShapefile
    \/ LoadExcel
    \/ ExcelLoadError
    \/ BuildAcronymMapping
    \/ ProcessDistrictRecommendations
    \/ CreateMasterData
    \/ MergeDistrictRecommendations
    \/ AddCommunitySip
    \/ AddPotentialData
    \/ MatchWithShapefile
    \/ NoDistrictColumn
    \/ FinalizeColumns
    \/ FillMissing
    \/ SaveShapefile
    \/ SaveError
    \/ SummaryReport
    \/ UpdateApp
    \/ MainFailed

Spec == Init /\ [][Next]_vars

-----------------------------------------------------------------------------
(* create_match_key applied to a name, then to its own result *)

KeyAlphabet == {"A", "a", " ", "-", ".", "\t"}

RECURSIVE StringsUpTo(_)
StringsUpTo(n) ==
    IF n = 0 THEN {""}
    ELSE StringsUpTo(n - 1) \cup {s \o c : s \in StringsUpTo(n - 1), c \in KeyAlphabet}

KeyNames == {S(s) : s \in StringsUpTo(MaxKeyLen)} \cup {NaN}

InitKey ==
    /\ pc = "key"
    /\ kname \in KeyNames
    /\ kkey = <<>>
    /\ shp_exists = FALSE
    /\ shp_file = EmptyDF
    /\ report = {}
    /\ gdf = EmptyDF
    /\ name_columns = <<>>
    /\ workbook = NoWorkbook
    /\ acronym_mapping = <<>>
    /\ district_rec_processed = EmptyDF
    /\ master_data = EmptyDF
    /\ merged_gdf = EmptyDF
    /\ successful_merges = 0
    /\ essential_cols = <<>>
    /\ district_rec_cols = <<>>
    /\ final_gdf = EmptyDF
    /\ out_file = EmptyDF
    /\ out_parts = {}
    /\ log = {}
    /\ result = "none"

\* one more application: to the name first, then to the last key
ApplyMatchKey ==
    /\ pc = "key"
    /\ Len(kkey) < 2
    /\ kkey' = Append(kkey, create_match_key(IF kkey = <<>> THEN kname ELSE S(kkey[Len(kkey)])))
    /\ UNCHANGED <<pc, kname, pipeline_vars>>

NextKey == ApplyMatchKey

SpecKey == InitKey /\ [][NextKey]_vars

-----------------------------------------------------------------------------
(* The level table of legend_component.get_category_colors: the level       *)
(* strings each category has a colour for                                   *)

get_category_colors(category) ==
    CASE category = "Adaptation" ->
            {"Less Suitable", "Moderately Suitable", "Highly Suitable", "Very Highly Suitable"}
      [] category = "Mitigation" ->
            {"Less Suitable", "Moderately Suitable", "Highly Suitable", "Very High Suitable"}
      [] category = "Replacment" ->
            {"Less Suitable", "Moderately Suitable", "Highly Suitable",
             "Highly Suitable (On Grid)", "Highly Suitable (Community Wells)",
             "Highly Suitable (On Grid Community Wells)"}
      [] category = "General_SI" ->
            {"Less Suitable", "Moderately Suitable",
             "Highly Suitable (On Grid Replacement)",
             "Highly Suitable (On Grid Community Wells)",
             "Highly Suitable (Mitigation + On Grid Replacement)",
             "Highly Suitable (Mitigation + On Grid Community We",
             "Highly Suitable (Mitigation)",
             "Highly Suitable (Adaptation + On Grid Replacement)",
             "Highly Suitable (Adaptation + On Grid Community We",
             "Highly Suitable (Adaptation + Mitigation + On Grid",
             "Highly Suitable (Adaptation + Mitigation)",
             "Highly Suitable (Adaptation )",
             "Highly Suitable"}
      [] OTHER -> {}

-----------------------------------------------------------------------------
(* Properties *)

\* the output has been written
Written == out_file # EmptyDF

\* the cell of row r of df in its first column labelled c
CellOf(df, r, c) == df.rows[r][ColIndex(df.cols, c)]

\* the category fields of the output: field, the master column it is made
\* of, the legend category that colours it
CategoryFields ==
    << <<"Adapt", "Adaptation_New", "Adaptation">>,
       <<"Mitigate", "Mitigation_New", "Mitigation">>,
       <<"Replace", "Replacement_New", "Replacment">>,
       <<"General_SI", "Overall_Potential", "General_SI">> >>

\* the keys of the master records, once match_key is computed
MasterKeys == {CellOf(master_data, m, "match_key") : m \in 1..Len(master_data.rows)}

\* C1: the output has as many features as the boundary dataset
C1_OutputCountEqualsInput ==
    Written => Len(out_file.rows) = Len(gdf.rows)

\* C2: once match_key is computed, no two master records have the same
\* match_key
C2_OneRecordPerKey ==
    InSeq("match_key", master_data.cols) =>
        \A i, j \in 1..Len(master_data.rows) :
            i # j => CellOf(master_data, i, "match_key") # CellOf(master_data, j, "match_key")

\* C3: the dataset handed to the writer, and the dataset written, have no
\* two fields of the same name
C3_NoDuplicateFieldNames ==
    /\ pc = "save" => ~HasDuplicateCols(final_gdf.cols)
    /\ ~HasDuplicateCols(out_file.cols)

\* C3 witness: the writer is handed a dataset made from recommendation
\* columns that collided after renaming
C3_Witness ==
    /\ pc = "save"
    /\ HasDuplicateCols(district_rec_processed.cols)
    /\ \E i \in 1..Len(final_gdf.cols) : InSeq(final_gdf.cols[i], district_rec_cols)

\* C4: after renaming, every column of the recommendation sheet other than
\* the key columns has a name of at most 10 characters, and so has every
\* core field name
C4_FieldNamesFit ==
    /\ \A i \in 1..Len(core_suitability_mapping) :
            Len(core_suitability_mapping[i][2]) <= FieldNameLimit
    /\ Len("Has_CommSI") <= FieldNameLimit
    /\ pc = "master" =>
            \A i \in 1..Len(district_rec_processed.cols) :
                district_rec_processed.cols[i] \notin {"State", "District"}
                    => Len(district_rec_processed.cols[i]) <= FieldNameLimit

\* C5: create_match_key applied to its own result gives that result
C5_Idempotent ==
    Len(kkey) = 2 => kkey[2] = kkey[1]

C7_UnmatchedCarryDefaults ==
    Written =>
        \A g \in 1..Len(gdf.rows) :
            /\ \E r \in 1..Len(out_file.rows) :
                    CellOf(out_file, r, "geometry") = CellOf(gdf, g, "geometry")
            /\ CellOf(gdf, g, "match_key") \notin MasterKeys =>
                    \A r \in 1..Len(out_file.rows) :
                        CellOf(out_file, r, "geometry") = CellOf(gdf, g, "geometry") =>
                            /\ \A c \in {"Adapt", "Mitigate", "Replace", "General_SI",
                                         "Comm_SIP", "Has_CommSI"} : InSeq(c, out_file.cols)
                            /\ \A c \in {"Adapt", "Mitigate", "Replace", "General_SI"} :
                                    CellOf(out_file, r, c) = S("No Data")
                            /\ CellOf(out_file, r, "Comm_SIP") = S("")
                            /\ CellOf(out_file, r, "Has_CommSI") = B(FALSE)

\* C7 witness: the output is written for a boundary dataset with a matched
\* and an unmatched feature
C7_Witness ==
    /\ Written
    /\ \E g \in 1..Len(gdf.rows) : CellOf(gdf, g, "match_key") \notin MasterKeys
    /\ \E g \in 1..Len(gdf.rows) : CellOf(gdf, g, "match_key") \in MasterKeys

\* C8: for a boundary feature and a ranking row whose names have equal
\* normalized keys, an output feature of that boundary feature carries the
\* row's non-missing values in Adapt, Mitigate and Replace
C8_EqualKeysMerge ==
    Written =>
        \A g \in 1..Len(gdf.rows) : \A k \in 1..Len(workbook.ranking.rows) :
            create_match_key(CellOf(gdf, g, "NAME_2"))
                    = create_match_key(workbook.ranking.rows[k][1]) =>
                \E r \in 1..Len(out_file.rows) :
                    /\ CellOf(out_file, r, "geometry") = CellOf(gdf, g, "geometry")
                    /\ \A c \in 1..3 :
                            notna(workbook.ranking.rows[k][c + 1]) =>
                                CellOf(out_file, r, CategoryFields[c][1])
                                    = workbook.ranking.rows[k][c + 1]

\* C8 witness: the output is written for a boundary feature and a ranking
\* row that spell one district differently
C8_Witness ==
    /\ Written
    /\ \E g \in 1..Len(gdf.rows) : \E k \in 1..Len(workbook.ranking.rows) :
            /\ notna(workbook.ranking.rows[k][1])
            /\ CellOf(gdf, g, "NAME_2") # workbook.ranking.rows[k][1]
            /\ create_match_key(CellOf(gdf, g, "NAME_2"))
                    = create_match_key(workbook.ranking.rows[k][1])
            /\ notna(workbook.ranking.rows[k][2])

\* the master record builder has joined every sheet and the match with the
\* boundary dataset has not begun
MasterBuilt == pc = "match"

\* master record m is made of ranking row k
FromRankingRow(m, k) ==
    \A c \in 1..4 : master_data.rows[m][c] = workbook.ranking.rows[k][c]

\* master record m carries the cells of row q of the recommendation sheet
CarriesRecRow(m, q) ==
    \A i \in 1..Len(workbook.rec.cols) :
        workbook.rec.cols[i] # "District" =>
            \E p \in 1..Len(master_data.cols) :
                /\ master_data.cols[p] = new_col_name(acronym_mapping, workbook.rec.cols[i])
                /\ master_data.rows[m][p] = workbook.rec.rows[q][i]

\* every row of a joined sheet whose district has the key K of a ranking
\* row's district is joined onto a master record of that ranking row
SheetsJoinedOn(K(_)) ==
    MasterBuilt =>
        \A k \in 1..Len(workbook.ranking.rows) :
            /\ \A q \in 1..Len(workbook.rec.rows) :
                    K(workbook.ranking.rows[k][1]) = K(CellOf(workbook.rec, q, "District")) =>
                        \E m \in 1..Len(master_data.rows) :
                            FromRankingRow(m, k) /\ CarriesRecRow(m, q)
            /\ \A q \in 1..Len(workbook.community.rows) :
                    K(workbook.ranking.rows[k][1])
                            = K(CellOf(workbook.community, q, "District")) =>
                        \E m \in 1..Len(master_data.rows) :
                            /\ FromRankingRow(m, k)
                            /\ CellOf(master_data, m, "Community_SIP")
                                    = CellOf(workbook.community, q, "Final")
            /\ \A q \in 1..Len(workbook.potential.rows) :
                    K(workbook.ranking.rows[k][1])
                            = K(CellOf(workbook.potential, q, "District")) =>
                        \E m \in 1..Len(master_data.rows) :
                            /\ FromRankingRow(m, k)
                            /\ CellOf(master_data, m, "Overall_Potential")
                                    = CellOf(workbook.potential, q, "Final Potential")

\* C9: the sheets are joined on the normalized district key
C9_JoinsOnNormalizedKey ==
    SheetsJoinedOn(LAMBDA v : create_match_key(v))

\* the title-cased, stripped name; a missing name has none
CleanName(v) == IF v.k = "str" THEN <<str_strip(str_title(v.s))>> ELSE <<>>

\* C9 amended: the sheets are joined on the title-cased, stripped district
\* name
C9_JoinsOnCleanName ==
    SheetsJoinedOn(LAMBDA v : CleanName(v))

\* C9 witness: a ranking row and a recommendation row spell one district
\* differently and have the same title-cased, stripped name
C9_Witness ==
    /\ MasterBuilt
    /\ \E k \in 1..Len(workbook.ranking.rows) : \E q \in 1..Len(workbook.rec.rows) :
            /\ notna(workbook.ranking.rows[k][1])
            /\ workbook.ranking.rows[k][1] # CellOf(workbook.rec, q, "District")
            /\ CleanName(workbook.ranking.rows[k][1]) = CleanName(CellOf(workbook.rec, q, "District"))

ColSet(cols) == {cols[i] : i \in 1..Len(cols)}

\* the names the recommendation columns other than the keys are given
RecFieldNames ==
    {new_col_name(acronym_mapping, c) : c \in ColSet(workbook.rec.cols) \ {"State", "District"}}

\* C10: the output schema is geometry, the boundary name columns, the four
\* category fields, Comm_SIP, Has_CommSI and the recommendation fields
C10_SchemaExactly ==
    Written =>
        ColSet(out_file.cols) =
            {"geometry"} \cup ColSet(name_columns)
                \cup {"Adapt", "Mitigate", "Replace", "General_SI", "Comm_SIP", "Has_CommSI"}
                \cup RecFieldNames

\* C10 amended: the output schema is geometry, the boundary name columns,
\* the four category fields, Comm_SIP, Has_CommSI, State_Name, Dist_Name and
\* the recommendation fields
C10_SchemaWithNames ==
    Written =>
        ColSet(out_file.cols) =
            {"geometry"} \cup ColSet(name_columns)
                \cup {"Adapt", "Mitigate", "Replace", "General_SI", "Comm_SIP", "Has_CommSI"}
                \cup {"State_Name", "Dist_Name"}
                \cup RecFieldNames

\* C10 witness: the output is written with recommendation fields
C10_Witness ==
    /\ Written
    /\ RecFieldNames # {}
    /\ InSeq("Dist_Name", out_file.cols)
    /\ InSeq("State_Name", out_file.cols)

\* the fields of the output that the fill of the joined fields is about:
\* all but the geometry, the boundary name columns, the four category
\* fields, the community marker and the community flag
OtherJoinedFields ==
    ColSet(out_file.cols) \ ({"geometry"} \cup ColSet(name_columns)
        \cup {"Adapt", "Mitigate", "Replace", "General_SI", "Comm_SIP", "Has_CommSI"})

\* C11: in the written output no joined field other than the category
\* fields, the community marker and the community flag has a missing value
C11_JoinedFieldsFilled ==
    Written =>
        \A r \in 1..Len(out_file.rows) : \A c \in OtherJoinedFields :
            notna(CellOf(out_file, r, c))

\* C12: a boundary dataset without NAME_2 that has another name column is
\* matched on that column and the run does not end for lack of a district
\* column; a dataset with NAME_2 is matched on NAME_2
C12_FallbackNameColumn ==
    /\ (~InSeq("NAME_2", gdf.cols) /\ name_columns # <<>>) =>
            "No suitable district column found in shapefile" \notin log
    /\ (InSeq("NAME_2", gdf.cols) /\ InSeq("match_key", gdf.cols)) =>
            \A r \in 1..Len(gdf.rows) :
                CellOf(gdf, r, "match_key") = S(create_match_key(CellOf(gdf, r, "NAME_2")))

\* C13: a recommendation column other than State and District is named by
\* the acronym mapping if its label is a key of it, and by the first 10
\* characters of its label otherwise; the name is a field of the output
C13_RenamePolicy ==
    district_rec_processed # EmptyDF =>
        \A i \in 1..Len(workbook.rec.cols) :
            LET label == workbook.rec.cols[i]
                name == district_rec_processed.cols[i]
            IN label \notin {"State", "District"} =>
                /\ label \in DOMAIN acronym_mapping => name = acronym_mapping[label]
                /\ label \notin DOMAIN acronym_mapping =>
                        /\ Len(label) <= 10 => name = label
                        /\ Len(label) > 10 => name = SubSeq(label, 1, 10)
                        /\ label = "Groundwater Development Status" => name = "Groundwate"
                /\ Written => name \in ColSet(out_file.cols)

\* C13 witness: the output is written for a sheet with a mapped label, a
\* long label the mapping does not have and a short one it does not have
C13_Witness ==
    /\ Written
    /\ \E i \in 1..Len(workbook.rec.cols) :
            workbook.rec.cols[i] \in DOMAIN acronym_mapping
    /\ LabelStatus \in ColSet(workbook.rec.cols) \ DOMAIN acronym_mapping
    /\ "Wells" \in ColSet(workbook.rec.cols) \ DOMAIN acronym_mapping

\* the rows of the acronym sheet in which both labels are present
CompleteAcronymRows ==
    {r \in 1..Len(workbook.acronym.rows) :
        /\ notna(CellOf(workbook.acronym, r, "Original"))
        /\ notna(CellOf(workbook.acronym, r, "GIS Raw data layer"))}

\* C14: once the acronym mapping is built, its keys are the original labels
\* of the rows in which both labels are present, each mapped to the short
\* label of such a row, and the run has raised no error
C14_AcronymMappingEntries ==
    pc = "rename" =>
        /\ DOMAIN acronym_mapping =
                {CellOf(workbook.acronym, r, "Original").s : r \in CompleteAcronymRows}
        /\ \A key \in DOMAIN acronym_mapping :
                \E r \in CompleteAcronymRows :
                    /\ CellOf(workbook.acronym, r, "Original") = S(key)
                    /\ CellOf(workbook.acronym, r, "GIS Raw data layer") = S(acronym_mapping[key])
        /\ result = "none"

\* C14 witness: the mapping is built from a sheet with a row that has both
\* labels and a row that misses one
C14_Witness ==
    /\ pc = "rename"
    /\ CompleteAcronymRows # {}
    /\ \E r \in 1..Len(workbook.acronym.rows) : r \notin CompleteAcronymRows

\* the community markers of the master records with the key of output
\* feature r
MarkersJoinedTo(r) ==
    {CellOf(master_data, m, "Community_SIP") :
        m \in {k \in 1..Len(master_data.rows) :
                CellOf(master_data, k, "match_key")
                    = S(create_match_key(CellOf(out_file, r, "NAME_2")))}}

\* C15: Has_CommSI of an output feature is true exactly when its marker
\* Comm_SIP is "Community SIP", the marker being that of a master record
\* joined to the feature; it is false for a feature no master record is
\* joined to
C15_HasCommSI ==
    Written =>
        \A r \in 1..Len(out_file.rows) :
            /\ CellOf(out_file, r, "Has_CommSI")
                    = B(CellOf(out_file, r, "Comm_SIP") = S("Community SIP"))
            /\ CellOf(out_file, r, "Has_CommSI") = B(TRUE) =>
                    S("Community SIP") \in MarkersJoinedTo(r)
            /\ MarkersJoinedTo(r) = {S("Community SIP")} =>
                    CellOf(out_file, r, "Has_CommSI") = B(TRUE)
            /\ MarkersJoinedTo(r) = {} => CellOf(out_file, r, "Has_CommSI") = B(FALSE)

\* C15 witness: the output has a feature with the marker "Community SIP",
\* a matched feature with another marker, or an unmatched feature
C15_Witness ==
    /\ Written
    /\ \E r \in 1..Len(out_file.rows) : CellOf(out_file, r, "Has_CommSI") = B(TRUE)
    /\ \E r \in 1..Len(out_file.rows) :
            /\ CellOf(out_file, r, "Has_CommSI") = B(FALSE)
            /\ \/ MarkersJoinedTo(r) = {}
               \/ S("Individual") \in MarkersJoinedTo(r)

\* the boundary features have their keys and no key is a master record's
ZeroMatch ==
    /\ InSeq("match_key", gdf.cols)
    /\ \A g \in 1..Len(gdf.rows) : CellOf(gdf, g, "match_key") \notin MasterKeys

\* C16: when no boundary feature matches a master record, the warning is
\* logged, the run is not aborted (it fails only if the write fails), and
\* the output it writes has "No Data" in every category field and is
\* followed by the return of True
C16_ZeroMatchStillWrites ==
    ZeroMatch =>
        /\ "Warning: No successful matches found!" \in log
        /\ pc # "crashed"
        /\ result = "False" => "Error saving shapefile" \in log
        /\ Written =>
                \A r \in 1..Len(out_file.rows) :
                    \A c \in {"Adapt", "Mitigate", "Replace", "General_SI"} :
                        CellOf(out_file, r, c) = S("No Data")
        /\ (Written /\ pc = "done") => result = "True"

\* C16 witness: a run without a match has written its output and returned
\* True
C16_Witness ==
    /\ ZeroMatch
    /\ Written
    /\ pc = "done"
    /\ result = "True"

\* the normalized keys of the district names of a sheet
SheetKeys(sheet) ==
    {S(create_match_key(CellOf(sheet, r, "District"))) : r \in 1..Len(sheet.rows)}

\* C17: once the master records have their keys, the set of their keys is
\* the set of the normalized keys of the rows of the ranking sheet
C17_MasterKeysAreRankingKeys ==
    InSeq("match_key", master_data.cols) =>
        MasterKeys = SheetKeys(workbook.ranking)

\* C17 witness: the master records have their keys, a ranking row has no
\* row of the recommendation sheet to join, and the potential sheet has a
\* district the ranking sheet does not have
C17_Witness ==
    /\ InSeq("match_key", master_data.cols)
    /\ \E k \in 1..Len(workbook.ranking.rows) :
            S(create_match_key(workbook.ranking.rows[k][1])) \notin SheetKeys(workbook.rec)
    /\ \E q \in 1..Len(workbook.potential.rows) :
            S(create_match_key(CellOf(workbook.potential, q, "District")))
                \notin SheetKeys(workbook.ranking)

\* the messages of the failures to load the boundary file or the workbook
LoadErrors ==
    {"Solar_Suitability_layer.shp not found!", "Error loading shapefile",
     "Error loading Excel file"}

\* C18: a run that found no boundary file, or could not read it, or could
\* not read the workbook or one of its sheets, has printed the error, has
\* returned False and has neither made nor written a dataset
C18_LoadFailuresReturnFalse ==
    /\ (~shp_exists /\ pc # "start") =>
            "Solar_Suitability_layer.shp not found!" \in log
    /\ (log \cap LoadErrors # {}) =>
            /\ result = "False"
            /\ pc = "done"
            /\ final_gdf = EmptyDF
            /\ ~Written

\* C18 witness: the boundary file is loaded and the workbook is not
C18_Witness ==
    /\ "Error loading Excel file" \in log
    /\ gdf # EmptyDF
    /\ pc = "done"

\* a loaded sheet lacks a column the script expects
LacksExpectedColumn ==
    /\ workbook # NoWorkbook
    /\ \/ ~HasCols(workbook.acronym, {"Original", "GIS Raw data layer"})
       \/ ~HasCols(workbook.community, {"State", "District", "Final"})
       \/ ~HasCols(workbook.potential, {"Final Potential"})
       \/ Len(workbook.ranking.cols) # 4

\* C19: a run on a workbook with a sheet that lacks an expected column ends
\* by returning False, with nothing written
C19_MissingColumnReturnsFalse ==
    (LacksExpectedColumn /\ pc \in {"done", "crashed"}) =>
        /\ pc = "done"
        /\ result = "False"
        /\ ~Written

\* C20: a run whose write failed has returned False and no file of the
\* output set remains
C20_FailedWriteLeavesNothing ==
    "Error saving shapefile" \in log =>
        /\ result = "False"
        /\ out_parts = {}

\* the positions of a run, in the order of the script
StepOrder ==
    <<"start", "clean", "excel", "acronym", "rename", "master", "merge_rec", "community",
      "potential", "match", "finalize", "fill", "save", "report", "done">>

\* the place of position p in the script; a failed or crashed run is at its end
Rank(p) ==
    IF p = "crashed" THEN Len(StepOrder)
    ELSE CHOOSE i \in 1..Len(StepOrder) : StepOrder[i] = p

\* what has happened before the state, step by step
StepsInOrder ==
    /\ (gdf # EmptyDF) = ("Loaded shapefile" \in log)
    /\ workbook # NoWorkbook => gdf # EmptyDF /\ Rank(pc) > Rank("excel")
    /\ master_data # EmptyDF => workbook # NoWorkbook /\ Rank(pc) > Rank("master")
    /\ merged_gdf # EmptyDF => InSeq("match_key", master_data.cols) /\ Rank(pc) > Rank("match")
    /\ final_gdf # EmptyDF => merged_gdf # EmptyDF /\ Rank(pc) > Rank("finalize")
    /\ Rank(pc) > Rank("fill") /\ pc # "crashed" /\ result # "False" =>
            final_gdf = Filled(final_gdf, district_rec_cols)
    /\ Written => /\ final_gdf # EmptyDF
                  /\ out_file = final_gdf
                  /\ pc \in {"report", "done"}
                  /\ log \cap {"Error loading shapefile", "Error loading Excel file",
                               "Error saving shapefile",
                               "No suitable district column found in shapefile"} = {}
    /\ "Summary Report" \in log => Written
    /\ (result = "True") = ("Summary Report" \in log)
    /\ "Updating App Configuration" \in log => result = "True" /\ pc = "done"

\* C21: the steps of a run occur in the order of the script, each at most
\* once: the position only moves forward, the write comes after the loads,
\* joins and fills, the report and the return of True after the write, and
\* update_app_for_new_shapefile after the return of True
C21_StepOrder ==
    /\ []StepsInOrder
    /\ [][pc' # pc => Rank(pc') > Rank(pc)]_vars

\* C21 witness: a run has gone through every step and main has printed the
\* instructions
C21_Witness ==
    /\ "Updating App Configuration" \in log
    /\ Written

\* the boundary features joined to a master record that has a ranking for
\* Adaptation_New
FeaturesWithRanking ==
    {g \in 1..Len(gdf.rows) :
        \E m \in 1..Len(master_data.rows) :
            /\ CellOf(master_data, m, "match_key") = CellOf(gdf, g, "match_key")
            /\ notna(CellOf(master_data, m, "Adaptation_New"))}

\* C22: after the merge, successful_merges is the number of boundary
\* features that received a value of Adaptation_New; it is at most the
\* number of boundary features, and zero exactly when no feature received
\* one
C22_MatchCountIsFeatures ==
    merged_gdf # EmptyDF =>
        /\ successful_merges = Cardinality(FeaturesWithRanking)
        /\ successful_merges <= Len(gdf.rows)
        /\ (successful_merges = 0) = (FeaturesWithRanking = {})

\* C23: an output with the community marker field has the flag column
\* 'Has_CommSIP', and the report of such an output prints the count of
\* 'Community SIP Districts'
C23_HasCommSIPColumn ==
    /\ (Written /\ InSeq("Comm_SIP", out_file.cols)) => InSeq("Has_CommSIP", out_file.cols)
    /\ ("Summary Report" \in log /\ InSeq("Comm_SIP", out_file.cols)) =>
            "Community SIP Districts" \in log

\* the columns of the recommendation sheet whose new name an earlier
\* column of the sheet has too
LaterRecCols ==
    {j \in 1..Len(workbook.rec.cols) :
        \E i \in 1..(j - 1) : district_rec_processed.cols[i] = district_rec_processed.cols[j]}

\* the first column of the recommendation sheet with the new name of column j
FirstRecCol(j) ==
    CHOOSE i \in 1..j :
        /\ district_rec_processed.cols[i] = district_rec_processed.cols[j]
        /\ i \notin LaterRecCols

\* the cells of the columns idx of the recommendation sheet
RecValues(idx) ==
    {workbook.rec.rows[q][i] : q \in 1..Len(workbook.rec.rows), i \in idx}

\* C24: when two recommendation columns get one name, the output has one
\* field of that name, with the values of the first of them (or the fill
\* value), and no value of the later column is in the output
C24_FirstDuplicateWins ==
    Written =>
        \A j \in LaterRecCols :
            LET name == district_rec_processed.cols[j]
            IN /\ Len(Positions(out_file.cols, name)) = 1
               /\ \A r \in 1..Len(out_file.rows) :
                    CellOf(out_file, r, name)
                        \in {S("N/A"), N(0)} \cup RecValues({FirstRecCol(j)})
               /\ \A r \in 1..Len(out_file.rows) : \A c \in 1..Len(out_file.cols) :
                    out_file.rows[r][c] \in RecValues({j}) =>
                        out_file.rows[r][c]
                            \in RecValues((1..Len(workbook.rec.cols)) \ LaterRecCols)

\* C24 witness: the output has a feature with the value of the first of two
\* recommendation columns of one name
C24_Witness ==
    /\ Written
    /\ \E j \in LaterRecCols : \E r \in 1..Len(out_file.rows) :
            /\ CellOf(out_file, r, district_rec_processed.cols[j])
                    \in RecValues({FirstRecCol(j)})
            /\ RecValues({j}) \cap RecValues({FirstRecCol(j)}) = {}

\* a name that is absent or made of spaces, hyphens and periods only
BlankName(c) ==
    \/ isna(c)
    \/ c.k = "str" /\ \A i \in 1..Len(c.s) : Chr(c.s, i) \in {" ", "-", "."}

\* the boundary features and the master records whose district name is blank
BlankFeatures == {f \in 1..Len(gdf.rows) : BlankName(CellOf(gdf, f, "NAME_2"))}
BlankRecords == {m \in 1..Len(master_data.rows) : BlankName(CellOf(master_data, m, "District"))}

\* C25: a boundary feature with a blank NAME_2 is matched with every master
\* record with a blank district name: for each such pair the output has a
\* row with that feature's geometry and the record's category values
C25_BlankNamesJoin ==
    Written =>
        \A f \in BlankFeatures : \A m \in BlankRecords :
            \E r \in 1..Len(out_file.rows) :
                /\ CellOf(out_file, r, "geometry") = CellOf(gdf, f, "geometry")
                /\ \A p \in 1..Len(core_suitability_mapping) :
                     LET v == CellOf(master_data, m, core_suitability_mapping[p][1])
                     IN notna(v) => CellOf(out_file, r, core_suitability_mapping[p][2]) = v

\* C25 witness: the output has a feature with a blank name that carries the
\* category of a record with a blank name, for an absent name and for a name
\* of spaces, hyphens and periods on either side
C25_Witness ==
    /\ Written
    /\ \E f \in BlankFeatures : \E m \in BlankRecords : \E r \in 1..Len(out_file.rows) :
         /\ CellOf(out_file, r, "geometry") = CellOf(gdf, f, "geometry")
         /\ notna(CellOf(master_data, m, "Adaptation_New"))
         /\ CellOf(out_file, r, "Adapt") = CellOf(master_data, m, "Adaptation_New")
         /\ notna(CellOf(gdf, f, "NAME_2"))
         /\ notna(CellOf(master_data, m, "District"))

\* a second case of C25: both names absent
C25_AbsentNames ==
    /\ Written
    /\ \E f \in BlankFeatures : \E m \in BlankRecords : \E r \in 1..Len(out_file.rows) :
         /\ CellOf(out_file, r, "geometry") = CellOf(gdf, f, "geometry")
         /\ CellOf(out_file, r, "Adapt") = CellOf(master_data, m, "Adaptation_New")
         /\ isna(CellOf(gdf, f, "NAME_2"))
         /\ isna(CellOf(master_data, m, "District"))
         /\ notna(CellOf(master_data, m, "Adaptation_New"))

\* the columns of the boundary file that are neither geometry nor NAME columns
DummyCols ==
    {c \in ColSet(shp_file.cols) :
        /\ c # "geometry"
        /\ str_upper(c) # "NAME"
        /\ ~str_startswith(str_upper(c), "NAME_")}

\* the boundary feature f is where the output row r comes from: same
\* geometry and same value in each NAME column
ComesFrom(r, f) ==
    /\ CellOf(out_file, r, "geometry") = CellOf(shp_file, f, "geometry")
    /\ \A c \in ColSet(shp_file.cols) \ DummyCols :
          /\ InSeq(c, out_file.cols)
          /\ CellOf(out_file, r, c) = CellOf(shp_file, f, c)

BoundaryPartKept ==
    Written =>
        /\ \A r \in 1..Len(out_file.rows) : \E f \in 1..Len(shp_file.rows) : ComesFrom(r, f)
        /\ \A c \in DummyCols :
              InSeq(c, out_file.cols) =>
                  /\ c \in RecFieldNames
                  /\ \A r \in 1..Len(out_file.rows) : \A f \in 1..Len(shp_file.rows) :
                        CellOf(out_file, r, c) # CellOf(shp_file, f, c)

\* C26: each output feature has the geometry and the NAME values of a
\* feature of the boundary file, a boundary column that is neither geometry
\* nor a NAME column is in the output only as a column of a joined sheet, and
\* no step changes the boundary file
C26_BoundaryUnchanged ==
    /\ []BoundaryPartKept
    /\ [][shp_file' = shp_file]_vars

\* C26 witness: an output whose boundary file had an absent district name
\* and a dummy column of the name of a recommendation field in the output
C26_Witness ==
    /\ Written
    /\ \E r \in 1..Len(out_file.rows) : isna(CellOf(out_file, r, "NAME_2"))
    /\ \E c \in DummyCols : InSeq(c, out_file.cols)
    /\ \E c \in DummyCols : ~InSeq(c, out_file.cols)

\* the lines of the report for one field
LinesOf(field) == {l \in report : l.objective = field}

RECURSIVE SumCounts(_)
SumCounts(lines) ==
    IF lines = {} THEN 0
    ELSE LET l == CHOOSE x \in lines : TRUE
         IN l.count + SumCounts(lines \ {l})

\* C27: in the report, for each category field of the output, the counts
\* over its distinct values sum to the number of output features, each count
\* is the number of features with that value, and each percentage is
\* count / total * 100 to one decimal
C27_ReportCounts ==
    "Summary Report" \in log =>
        \A o \in 1..Len(objectives) :
            InSeq(objectives[o], out_file.cols) =>
                /\ SumCounts(LinesOf(objectives[o])) = Len(out_file.rows)
                /\ \A l \in LinesOf(objectives[o]) :
                      /\ l.count = Cardinality({r \in 1..Len(out_file.rows) :
                                        CellOf(out_file, r, objectives[o]) = l.value})
                      /\ 2 * (l.percentage * Len(out_file.rows) - l.count * 1000)
                            \in (0 - Len(out_file.rows))..Len(out_file.rows)

\* C27 witness: a report in which a field has a value of two features and
\* another has two values, one of them the "No Data" that replaced a
\* missing value, with a percentage that is not a whole number of tenths
C27_Witness ==
    /\ "Summary Report" \in log
    /\ \E l \in report : l.count >= 2
    /\ \E l \in report : l.value = S("No Data") /\ l.count < Len(out_file.rows)
    /\ \E l \in report : (l.count * 1000) % Len(out_file.rows) # 0

=============================================================================
